---- MODULE Spec2Model ----
(***************************************************************************)
(* github-mq-to-post-relay (main.go): configuration loading, the per-relay *)
(* supervision goroutines, the consume loop of listenForGitHubPush and     *)
(* postToUrl.  The broker and the HTTP target are the environment.         *)
(***************************************************************************)
EXTENDS Integers, Sequences, FiniteSets, TLC

VARIABLES
    env,          \* the process environment (os.Getenv), fixed for a run
    pcMain,       \* main(): "load", "run", "fatal" (log.Fatal) or "crashed" (panic)
    configs,      \* the []RelayConfig returned by loadRelayConfigs
    warnings,     \* indices named by the "Missing configuration" warnings
    pc,           \* per relay goroutine: where it is
    connOpen,     \* per relay: the worker holds an amqp connection not yet Close()d
    chOpen,       \* per relay: the worker holds an amqp channel not yet Close()d
    brokerClosed, \* per relay: the connection was closed under the worker (onClose pending)
    deliveries,   \* per relay: messages waiting on the deliveries channel
    cur,          \* per relay: the delivery being handled (0 when none)
    timer,        \* per relay: seconds left of the retry wait
    lastRet,      \* per relay: result of the last listenForGitHubPush run
    lastLog,      \* per relay: the last line the goroutine logged
    deq,          \* per relay: messages dequeued, in order
    fwd,          \* per relay: postToUrl invocations, in order
    done,         \* per relay: messages whose postToUrl has returned
    failed,       \* per relay: messages whose postToUrl logged a failure
    inflight,     \* per relay: messages whose HTTP request is in flight
    published     \* messages the broker has routed so far

vars == <<env, pcMain, configs, warnings, pc, connOpen, chOpen, brokerClosed,
          deliveries, cur, timer, lastRet, lastLog, deq, fwd, done, failed,
          inflight, published>>

----------------------------------------------------------------------------
(* Bounds *)

\* largest index for which the environment holds a numbered pair
MaxCount == 3

\* messages the broker routes in one run
MaxMsgs == 2

----------------------------------------------------------------------------
(* The environment *)

RepoKeys == {"", "org/a", "org/b"}

GoodURL == "http://ci/hook"

\* a non-empty string url.Parse rejects (missing protocol scheme)
BadURL == "://ci"

\* url.Parse, as far as postToUrl depends on it
urlParseOK(u) == u # BadURL

Digit == <<"0", "1", "2", "3", "4", "5", "6", "7", "8", "9">>

IsDigit(c) == \E d \in 1..Len(Digit) : Digit[d] = c

DigitVal(c) == (CHOOSE d \in 1..Len(Digit) : Digit[d] = c) - 1

\* RELAY_COUNT values: unset/empty, garbage, zero, negative, signed, 1..MaxCount+1
CountStrings ==
    {<<>>, <<"x">>, <<"2", "x">>, <<"-">>, <<"0">>, <<"-", "1">>, <<"+", "2">>, <<"0", "2">>}
    \cup {<<Digit[n + 1]>> : n \in 1..(MaxCount + 1)}

Envs == [RELAY_COUNT : CountStrings,
         numbered : [1..MaxCount -> [key : RepoKeys, url : {"", GoodURL}]],
         legacy : [key : {"", "org/a"}, url : {"", GoodURL}],
         SHUTDOWN_ON_GITHUB_PUSH : {"0"}]

\* os.Getenv of DIRECT_EXCHANGE_REPO_KEY_<i> / RELAY_TARGET_URL_<i>: unset reads as ""
GetenvKey(e, i) == IF i \in DOMAIN e.numbered THEN e.numbered[i].key ELSE ""

GetenvURL(e, i) == IF i \in DOMAIN e.numbered THEN e.numbered[i].url ELSE ""

----------------------------------------------------------------------------
(* strconv.Atoi: optional sign, then one or more decimal digits *)

RECURSIVE ParseDigits(_, _)
ParseDigits(s, acc) ==
    IF s = <<>> THEN acc
    ELSE ParseDigits(Tail(s), acc * 10 + DigitVal(Head(s)))

Atoi(s) ==
    LET signed == s # <<>> /\ Head(s) \in {"+", "-"}
        body == IF signed THEN Tail(s) ELSE s
    IN  IF body = <<>> \/ \E i \in 1..Len(body) : ~IsDigit(body[i])
        THEN [err |-> TRUE, val |-> 0]
        ELSE [err |-> FALSE,
              val |-> IF signed /\ Head(s) = "-"
                      THEN 0 - ParseDigits(body, 0)
                      ELSE ParseDigits(body, 0)]

----------------------------------------------------------------------------
(* loadLegacyConfig, loadRelayConfigs *)

\* loadLegacyConfig that only logs where the code calls log.Fatal
loadLegacyConfigNoFatal(e, warned) ==
    [configs |-> <<[RepoKey |-> e.legacy.key,
                    TargetURL |-> e.legacy.url,
                    Index |-> 0]>>,
     warnings |-> warned, fatal |-> FALSE]

loadLegacyConfig(e, warned) ==
    IF e.legacy.key = "" \/ e.legacy.url = ""
    THEN [configs |-> <<>>, warnings |-> warned, fatal |-> TRUE]
    ELSE [configs |-> <<[RepoKey |-> e.legacy.key,
                         TargetURL |-> e.legacy.url,
                         Index |-> 0]>>,
          warnings |-> warned, fatal |-> FALSE]

\* the loop of loadRelayConfigs with `break` in place of `continue`
RECURSIVE loadNumberedBreak(_, _, _, _, _)
loadNumberedBreak(e, i, relayCount, acc, warned) ==
    IF i > relayCount THEN [configs |-> acc, warnings |-> warned]
    ELSE IF GetenvKey(e, i) = "" \/ GetenvURL(e, i) = ""
         THEN [configs |-> acc, warnings |-> Append(warned, i)]
         ELSE loadNumberedBreak(e, i + 1, relayCount,
                  Append(acc, [RepoKey |-> GetenvKey(e, i),
                               TargetURL |-> GetenvURL(e, i),
                               Index |-> i]),
                  warned)

\* the loop of loadRelayConfigs with the legacy Index: 0 in its RelayConfig
RECURSIVE loadNumberedZeroIndex(_, _, _, _, _)
loadNumberedZeroIndex(e, i, relayCount, acc, warned) ==
    IF i > relayCount THEN [configs |-> acc, warnings |-> warned]
    ELSE IF GetenvKey(e, i) = "" \/ GetenvURL(e, i) = ""
         THEN loadNumberedZeroIndex(e, i + 1, relayCount, acc, Append(warned, i))
         ELSE loadNumberedZeroIndex(e, i + 1, relayCount,
                  Append(acc, [RepoKey |-> GetenvKey(e, i),
                               TargetURL |-> GetenvURL(e, i),
                               Index |-> 0]),
                  warned)

\* for i := 1; i <= relayCount; i++ { ... }
RECURSIVE loadNumbered(_, _, _, _, _)
loadNumbered(e, i, relayCount, acc, warned) ==
    IF i > relayCount THEN [configs |-> acc, warnings |-> warned]
    ELSE IF GetenvKey(e, i) = "" \/ GetenvURL(e, i) = ""
         THEN loadNumbered(e, i + 1, relayCount, acc, Append(warned, i))
         ELSE loadNumbered(e, i + 1, relayCount,
                  Append(acc, [RepoKey |-> GetenvKey(e, i),
                               TargetURL |-> GetenvURL(e, i),
                               Index |-> i]),
                  warned)

\* loadRelayConfigs without the fallback when no numbered entry is valid
loadRelayConfigsNoFallback(e) ==
    IF e.RELAY_COUNT # <<>>
    THEN LET n == Atoi(e.RELAY_COUNT)
         IN  IF n.err THEN loadLegacyConfig(e, <<>>)
             ELSE LET got == loadNumbered(e, 1, n.val, <<>>, <<>>)
                  IN  [configs |-> got.configs,
                       warnings |-> got.warnings,
                       fatal |-> FALSE]
    ELSE loadLegacyConfig(e, <<>>)

loadRelayConfigs(e) ==
    IF e.RELAY_COUNT # <<>>
    THEN LET n == Atoi(e.RELAY_COUNT)
         IN  IF n.err THEN loadLegacyConfig(e, <<>>)
             ELSE LET got == loadNumbered(e, 1, n.val, <<>>, <<>>)
                  IN  IF Len(got.configs) = 0
                      THEN loadLegacyConfig(e, got.warnings)
                      ELSE [configs |-> got.configs,
                            warnings |-> got.warnings,
                            fatal |-> FALSE]
    ELSE loadLegacyConfig(e, <<>>)

----------------------------------------------------------------------------
(* Environments the relay engine is run under: two numbered relays (the    *)
(* second with a usable or an unusable target URL), the legacy single      *)
(* relay, and no configuration at all; shutdown-on-push off and on.        *)

NoPair == [key |-> "", url |-> ""]

TwoRelays(u2, flag) ==
    [RELAY_COUNT |-> <<"2">>,
     numbered |-> [i \in 1..MaxCount |->
                     IF i = 1 THEN [key |-> "org/a", url |-> GoodURL]
                     ELSE IF i = 2 THEN [key |-> "org/b", url |-> u2]
                     ELSE NoPair],
     legacy |-> NoPair,
     SHUTDOWN_ON_GITHUB_PUSH |-> flag]

LegacyOnly(pair, flag) ==
    [RELAY_COUNT |-> <<>>,
     numbered |-> [i \in 1..MaxCount |-> NoPair],
     legacy |-> pair,
     SHUTDOWN_ON_GITHUB_PUSH |-> flag]

EngineEnvs ==
    {TwoRelays(u, f) : u \in {GoodURL, BadURL}, f \in {"0", "1"}}
    \cup {LegacyOnly([key |-> "org/a", url |-> GoodURL], f) : f \in {"0", "1"}}
    \cup {LegacyOnly(NoPair, "0")}

----------------------------------------------------------------------------
(* State *)

Relays == DOMAIN configs

\* const retryInterval = 60
retryInterval == 60

\* the places of a worker inside the select loop of listenForGitHubPush
LoopStates == {"select", "emit", "call", "http"}

\* the places where the relay's queue is bound to the exchange
BoundStates == {"consume"} \cup LoopStates

shutdownOnPush == env.SHUTDOWN_ON_GITHUB_PUSH = "1"

ForwardFailures == {"do request", "non-2xx", "read body"}

HttpOutcomes == ForwardFailures \cup {"replied"}

Msgs(s) == {s[i] : i \in 1..Len(s)}

FwdMsgs(k) == {fwd[k][i].msg : i \in 1..Len(fwd[k])}

\* before main has read the environment
NotStarted ==
    /\ pcMain = "load"
    /\ configs = <<>>
    /\ warnings = <<>>
    /\ pc = <<>>
    /\ connOpen = <<>>
    /\ chOpen = <<>>
    /\ brokerClosed = <<>>
    /\ deliveries = <<>>
    /\ cur = <<>>
    /\ timer = <<>>
    /\ lastRet = <<>>
    /\ lastLog = <<>>
    /\ deq = <<>>
    /\ fwd = <<>>
    /\ done = <<>>
    /\ failed = <<>>
    /\ inflight = <<>>
    /\ published = 0

Init == env \in EngineEnvs /\ NotStarted

----------------------------------------------------------------------------
(* main: load the configurations, then one goroutine per entry *)

MainStart ==
    /\ pcMain = "load"
    /\ LET r == loadRelayConfigs(env)
           ks == 1..Len(r.configs)
       IN  /\ warnings' = r.warnings
           /\ configs' = r.configs
           /\ pcMain' = IF r.fatal THEN "fatal" ELSE "run"
           /\ pc' = [k \in ks |-> "dial"]
           /\ connOpen' = [k \in ks |-> FALSE]
           /\ chOpen' = [k \in ks |-> FALSE]
           /\ brokerClosed' = [k \in ks |-> FALSE]
           /\ deliveries' = [k \in ks |-> <<>>]
           /\ cur' = [k \in ks |-> 0]
           /\ timer' = [k \in ks |-> 0]
           /\ lastRet' = [k \in ks |-> "none"]
           /\ lastLog' = [k \in ks |-> "none"]
           /\ deq' = [k \in ks |-> <<>>]
           /\ fwd' = [k \in ks |-> <<>>]
           /\ done' = [k \in ks |-> {}]
           /\ failed' = [k \in ks |-> {}]
           /\ inflight' = [k \in ks |-> {}]
    /\ UNCHANGED <<env, published>>

----------------------------------------------------------------------------
(* listenForGitHubPush: return paths *)

\* a deferred Close() that is skipped
closeSkipped(open, k) == open

\* defer conn.Close() / defer ch.Close()
closeOnReturn(open, k) == [open EXCEPT ![k] = FALSE]

\* a supervisor that restarts at once whatever the worker returned
superviseNoWait(pcv, k, err) == [pcv EXCEPT ![k] = "dial"]

\* main's loop after listenForGitHubPush returns: wait only after an error
supervise(pcv, k, err) == [pcv EXCEPT ![k] = IF err THEN "wait" ELSE "dial"]

\* a return after which the broker hands the never-acknowledged messages of
\* the run to the replacement (a consumer without auto-ack on a lasting queue)
WorkerReturnRequeue(k, err, pcv) ==
    /\ connOpen' = closeOnReturn(connOpen, k)
    /\ chOpen' = closeOnReturn(chOpen, k)
    /\ brokerClosed' = [brokerClosed EXCEPT ![k] = FALSE]
    /\ deliveries' = [deliveries EXCEPT ![k] = deq[k]]
    /\ cur' = [cur EXCEPT ![k] = 0]
    /\ lastRet' = [lastRet EXCEPT ![k] = IF err THEN "error" ELSE "nil"]
    /\ lastLog' = [lastLog EXCEPT ![k] = IF err THEN "retry" ELSE @]
    /\ timer' = [timer EXCEPT ![k] = IF err THEN retryInterval ELSE 0]
    /\ pc' = supervise(pcv, k, err)

\* the worker of relay k returns (err: with an error) and its supervisor reacts
WorkerReturn(k, err, pcv) ==
    /\ connOpen' = closeOnReturn(connOpen, k)
    /\ chOpen' = closeOnReturn(chOpen, k)
    /\ brokerClosed' = [brokerClosed EXCEPT ![k] = FALSE]
    /\ deliveries' = [deliveries EXCEPT ![k] = <<>>]
    /\ cur' = [cur EXCEPT ![k] = 0]
    /\ lastRet' = [lastRet EXCEPT ![k] = IF err THEN "error" ELSE "nil"]
    /\ lastLog' = [lastLog EXCEPT ![k] = IF err THEN "retry" ELSE @]
    /\ timer' = [timer EXCEPT ![k] = IF err THEN retryInterval ELSE 0]
    /\ pc' = supervise(pcv, k, err)

----------------------------------------------------------------------------
(* listenForGitHubPush: setup *)

Dial(k) ==
    /\ pcMain = "run"
    /\ pc[k] = "dial"
    /\ \/ /\ connOpen' = [connOpen EXCEPT ![k] = TRUE]
          /\ pc' = [pc EXCEPT ![k] = "channel"]
          /\ lastLog' = [lastLog EXCEPT ![k] = "starting"]
          /\ UNCHANGED <<chOpen, brokerClosed, deliveries, cur, timer, lastRet>>
       \/ WorkerReturn(k, TRUE, pc)
    /\ UNCHANGED <<env, pcMain, configs, warnings, deq, fwd, done, failed, inflight, published>>

\* a setup call on the open connection: it fails once the connection is gone
SetupStep(k, from, to) ==
    /\ pcMain = "run"
    /\ pc[k] = from
    /\ \/ /\ ~brokerClosed[k]
          /\ pc' = [pc EXCEPT ![k] = to]
          /\ chOpen' = [chOpen EXCEPT ![k] = @ \/ from = "channel"]
          /\ lastLog' = [lastLog EXCEPT ![k] = IF to = "select" THEN "listening" ELSE @]
          /\ UNCHANGED <<connOpen, brokerClosed, deliveries, cur, timer, lastRet>>
       \/ WorkerReturn(k, TRUE, pc)
    /\ UNCHANGED <<env, pcMain, configs, warnings, deq, fwd, done, failed, inflight, published>>

OpenChannel(k) == SetupStep(k, "channel", "confirm")

Confirm(k) == SetupStep(k, "confirm", "declare")

QueueDeclare(k) == SetupStep(k, "declare", "bind")

QueueBind(k) == SetupStep(k, "bind", "consume")

Consume(k) == SetupStep(k, "consume", "select")

----------------------------------------------------------------------------
(* postToUrl *)

\* postToUrl run on its own goroutine: the loop does not wait for it
pcWhilePostingAsync(pcv, k) == [pcv EXCEPT ![k] = "select"]

\* http.DefaultClient.Do blocks the worker until the exchange is over
pcWhilePosting(pcv, k) == [pcv EXCEPT ![k] = "http"]

\* a forwarding failure handed to the loop as a reason to leave it
pcAfterPostPropagate(pcv, k, outcome) ==
    [pcv EXCEPT ![k] = IF outcome \in ForwardFailures THEN "wait" ELSE "select"]

\* postToUrl returns nothing: the loop goes on whatever happened
pcAfterPost(pcv, k, outcome) == [pcv EXCEPT ![k] = "select"]

\* message bodies the publisher sends: a JSON push event and a text with a
\* space and a plus sign
Payloads ==
    << <<"{", "\"", "r", "\"", ":", "\"", "a", "/", "b", "\"", "}">>,
       <<"a", " ", "+", "b">> >>

\* d.Body of message m: the publisher sends each push twice
BodyOf(m) == Payloads[(((m - 1) \div 2) % Len(Payloads)) + 1]

\* url.QueryEscape of one byte: unreserved bytes stay, a space becomes "+",
\* every other byte becomes %XX
EscapeByte(c) ==
    CASE c = " " -> <<"+">>
      [] c = "{" -> <<"%", "7", "B">>
      [] c = "}" -> <<"%", "7", "D">>
      [] c = "\"" -> <<"%", "2", "2">>
      [] c = ":" -> <<"%", "3", "A">>
      [] c = "/" -> <<"%", "2", "F">>
      [] c = "+" -> <<"%", "2", "B">>
      [] c = "=" -> <<"%", "3", "D">>
      [] c = "&" -> <<"%", "2", "6">>
      [] OTHER -> <<c>>

RECURSIVE QueryEscape(_)
QueryEscape(s) ==
    IF s = <<>> THEN <<>> ELSE EscapeByte(Head(s)) \o QueryEscape(Tail(s))

\* form.Set("payload", ...); form.Encode()
formEncode(payload) ==
    <<"p", "a", "y", "l", "o", "a", "d", "=">> \o QueryEscape(payload)

\* a url.Values kept between calls and filled with form.Add: the body carries
\* the payloads of the relay's earlier forwards too
RECURSIVE formEncodeAll(_)
formEncodeAll(ms) ==
    IF ms = <<>> THEN <<>>
    ELSE formEncode(BodyOf(Head(ms)))
         \o (IF Tail(ms) = <<>> THEN <<>> ELSE <<"&">> \o formEncodeAll(Tail(ms)))

requestOf(encoded) ==
    [method |-> "POST",
     body |-> encoded,
     ContentType |-> "application/x-www-form-urlencoded",
     ContentLength |-> Len(encoded),
     XGitHubEvent |-> "push"]

buildRequestShared(k, m) ==
    requestOf(formEncodeAll([i \in 1..Len(fwd[k]) |-> fwd[k][i].msg] \o <<m>>))

\* the request postToUrl builds for message m: form, encoded, req and its
\* headers are locals of the call
buildRequest(k, m) == requestOf(formEncode(BodyOf(m)))

\* req after a failed http.NewRequestWithContext
NoRequest == [method |-> "none"]

\* a goroutine closure reading the loop variable instead of its parameter:
\* every relay sees the last configuration
cfgOfLoopVar(k) == configs[Len(configs)]

\* go func(cfg RelayConfig) { ... }(config): each goroutine has its own copy
cfgOf(k) == configs[k]

\* postToUrl up to http.DefaultClient.Do.  When NewRequestWithContext fails
\* req is nil and req.Header.Set panics: the process dies.
postToUrlCall(k, m) ==
    /\ fwd' = [fwd EXCEPT ![k] = Append(@, [msg |-> m,
                                            url |-> cfgOf(k).TargetURL,
                                            index |-> cfgOf(k).Index,
                                            key |-> cfgOf(k).RepoKey,
                                            req |-> IF urlParseOK(cfgOf(k).TargetURL)
                                                    THEN buildRequest(k, m)
                                                    ELSE NoRequest])]
    /\ IF urlParseOK(cfgOf(k).TargetURL)
       THEN /\ inflight' = [inflight EXCEPT ![k] = @ \cup {m}]
            /\ pc' = pcWhilePosting(pc, k)
            /\ cur' = [cur EXCEPT ![k] = m]
            /\ lastLog' = [lastLog EXCEPT ![k] = "payload"]
            /\ UNCHANGED pcMain
       ELSE /\ lastLog' = [lastLog EXCEPT ![k] = "build request"]
            /\ pcMain' = "crashed"
            /\ cur' = [cur EXCEPT ![k] = m]
            /\ UNCHANGED <<inflight, pc>>

\* the HTTP exchange ends (at the latest by the 10 s timeout); postToUrl returns
HttpDone(k) ==
    /\ pcMain = "run"
    /\ inflight[k] # {}
    /\ \E m \in inflight[k], outcome \in HttpOutcomes :
          /\ inflight' = [inflight EXCEPT ![k] = @ \ {m}]
          /\ done' = [done EXCEPT ![k] = @ \cup {m}]
          /\ failed' = [failed EXCEPT ![k] =
                           IF outcome \in ForwardFailures THEN @ \cup {m} ELSE @]
          /\ lastLog' = [lastLog EXCEPT ![k] = outcome]
          /\ pc' = pcAfterPost(pc, k, outcome)
          /\ cur' = [cur EXCEPT ![k] = IF @ = m THEN 0 ELSE @]
    /\ UNCHANGED <<env, pcMain, configs, warnings, connOpen, chOpen, brokerClosed,
                   deliveries, timer, lastRet, deq, fwd, published>>

----------------------------------------------------------------------------
(* listenForGitHubPush: the select loop *)

\* case d := <-deliveries
RecvDelivery(k) ==
    /\ pcMain = "run"
    /\ pc[k] = "select"
    /\ deliveries[k] # <<>>
    /\ LET m == Head(deliveries[k])
       IN  /\ deliveries' = [deliveries EXCEPT ![k] = Tail(@)]
           /\ deq' = [deq EXCEPT ![k] = Append(@, m)]
           /\ IF shutdownOnPush
              THEN /\ pc' = [pc EXCEPT ![k] = "emit"]
                   /\ cur' = [cur EXCEPT ![k] = m]
                   /\ UNCHANGED <<pcMain, fwd, inflight, lastLog>>
              ELSE postToUrlCall(k, m)
    /\ UNCHANGED <<env, configs, warnings, connOpen, chOpen, brokerClosed, timer,
                   lastRet, done, failed, published>>

\* shutdownCh made with a buffer, make(chan string, 1): the send of worker s
\* completes with no receiver
ShutdownBuffered(s, r) ==
    /\ pcMain = "run"
    /\ pc[s] = "emit"
    /\ pc' = [pc EXCEPT ![s] = "call"]
    /\ UNCHANGED <<env, pcMain, configs, warnings, connOpen, chOpen, brokerClosed,
                   deliveries, cur, timer, lastRet, lastLog, deq, fwd, done, failed,
                   inflight, published>>

\* shutdownCh is unbuffered: the send of worker s completes only together with
\* the receive of another worker r that waits in its select (case <-shutdownCh),
\* which leaves its loop and returns nil
ShutdownRendezvous(s, r) ==
    /\ pcMain = "run"
    /\ s # r
    /\ pc[s] = "emit"
    /\ pc[r] = "select"
    /\ WorkerReturn(r, FALSE, [pc EXCEPT ![s] = "call"])
    /\ UNCHANGED <<env, pcMain, configs, warnings, deq, fwd, done, failed, inflight, published>>

\* after the send: postToUrl(d.Body, config.TargetURL, config.Index, config.RepoKey)
ForwardAfterEmit(k) ==
    /\ pcMain = "run"
    /\ pc[k] = "call"
    /\ postToUrlCall(k, cur[k])
    /\ UNCHANGED <<env, configs, warnings, connOpen, chOpen, brokerClosed, deliveries,
                   timer, lastRet, deq, done, failed, published>>

\* the connection-closed case leaving the loop with `break loop`: return nil
OnCloseBreak(k) ==
    /\ pcMain = "run"
    /\ pc[k] = "select"
    /\ brokerClosed[k]
    /\ WorkerReturn(k, FALSE, pc)
    /\ UNCHANGED <<env, pcMain, configs, warnings, deq, fwd, done, failed, inflight, published>>

\* case onCloseValue := <-onClose
OnClose(k) ==
    /\ pcMain = "run"
    /\ pc[k] = "select"
    /\ brokerClosed[k]
    /\ WorkerReturn(k, TRUE, pc)
    /\ UNCHANGED <<env, pcMain, configs, warnings, deq, fwd, done, failed, inflight, published>>

\* <-time.After(retryInterval * time.Second)
RetryElapsed(k) ==
    /\ pcMain = "run"
    /\ pc[k] = "wait"
    /\ pc' = [pc EXCEPT ![k] = "dial"]
    /\ timer' = [timer EXCEPT ![k] = 0]
    /\ UNCHANGED <<env, pcMain, configs, warnings, connOpen, chOpen, brokerClosed,
                   deliveries, cur, lastRet, lastLog, deq, fwd, done, failed,
                   inflight, published>>

----------------------------------------------------------------------------
(* The environment: the broker *)

\* the exchange routes a message to the queue bound with the relay's key
Publish(k) ==
    /\ pcMain = "run"
    /\ pc[k] \in BoundStates
    /\ ~brokerClosed[k]
    /\ published < MaxMsgs
    /\ published' = published + 1
    /\ deliveries' = [deliveries EXCEPT ![k] = Append(@, published + 1)]
    /\ UNCHANGED <<env, pcMain, configs, warnings, pc, connOpen, chOpen, brokerClosed,
                   cur, timer, lastRet, lastLog, deq, fwd, done, failed, inflight>>

\* the connection of relay k is closed under the worker
BrokerClose(k) ==
    /\ pcMain = "run"
    /\ connOpen[k]
    /\ ~brokerClosed[k]
    /\ brokerClosed' = [brokerClosed EXCEPT ![k] = TRUE]
    /\ UNCHANGED <<env, pcMain, configs, warnings, pc, connOpen, chOpen, deliveries,
                   cur, timer, lastRet, lastLog, deq, fwd, done, failed, inflight, published>>

----------------------------------------------------------------------------

WorkerStep(k) ==
    \/ Dial(k)
    \/ OpenChannel(k)
    \/ Confirm(k)
    \/ QueueDeclare(k)
    \/ QueueBind(k)
    \/ Consume(k)
    \/ RecvDelivery(k)
    \/ ForwardAfterEmit(k)
    \/ OnClose(k)
    \/ RetryElapsed(k)
    \/ HttpDone(k)

Next ==
    \/ MainStart
    \/ \E k \in Relays : Dial(k)
    \/ \E k \in Relays : OpenChannel(k)
    \/ \E k \in Relays : Confirm(k)
    \/ \E k \in Relays : QueueDeclare(k)
    \/ \E k \in Relays : QueueBind(k)
    \/ \E k \in Relays : Consume(k)
    \/ \E k \in Relays : RecvDelivery(k)
    \/ \E s \in Relays, r \in Relays : ShutdownRendezvous(s, r)
    \/ \E k \in Relays : ForwardAfterEmit(k)
    \/ \E k \in Relays : OnClose(k)
    \/ \E k \in Relays : RetryElapsed(k)
    \/ \E k \in Relays : HttpDone(k)
    \/ \E k \in Relays : Publish(k)
    \/ \E k \in Relays : BrokerClose(k)

Spec == Init /\ [][Next]_vars

TypeOK ==
    /\ pcMain \in {"load", "run", "fatal", "crashed"}
    /\ \A k \in Relays :
          /\ pc[k] \in {"dial", "channel", "confirm", "declare", "bind", "consume", "wait"}
                       \cup LoopStates
          /\ timer[k] \in {0, retryInterval}
          /\ inflight[k] \subseteq Msgs(deq[k])
          /\ failed[k] \subseteq done[k]

----------------------------------------------------------------------------
(* Specifications *)

\* positions a relay can take in the configuration set
Slots == 1..MaxCount

\* every goroutine that can take a step eventually takes one; the broker's
\* publishes and disconnects are under no obligation
Fairness ==
    /\ WF_vars(MainStart)
    /\ \A k \in Slots : WF_vars(k \in Relays /\ WorkerStep(k))
    /\ WF_vars(\E s \in Relays, r \in Relays : ShutdownRendezvous(s, r))

FairSpec == Init /\ [][Next]_vars /\ Fairness

\* loadRelayConfigs alone, over every environment of Envs
LoadInit == env \in Envs /\ NotStarted

LoadNext == MainStart

LoadSpec == LoadInit /\ [][LoadNext]_vars

----------------------------------------------------------------------------
(* Claims *)

\* C1: a relay never blocks, delays or terminates another relay.  A relay that
\* waits in its consume loop on a healthy connection, with no message of its
\* own to handle, is still in its loop after any step, and the process runs on.
C1_RelaysIndependent ==
    [][\A r \in Relays :
          (pcMain = "run" /\ pc[r] = "select" /\ ~brokerClosed[r] /\ deliveries[r] = <<>>)
             => (pc'[r] = "select" /\ pcMain' = "run")]_vars

\* C2: with shutdown-on-push enabled, every message a worker has dequeued is
\* eventually handed to the Forwarder (the emit on the conduit is followed by
\* the forward), in any configuration.
C2_EmitThenForward ==
    \A k \in Slots :
        (k \in Relays /\ shutdownOnPush /\ Len(deq[k]) > Len(fwd[k]))
            ~> (k \in Relays /\ Len(deq[k]) = Len(fwd[k]))

\* C3: a worker whose connection closed while it was in its consume loop leaves
\* the loop only by returning an error, after which its supervisor is in the
\* full retry wait before any replacement.
C3_CloseThenErrorAndWait ==
    [][\A k \in Relays :
          (pc[k] \in LoopStates /\ brokerClosed[k] /\ pc'[k] \notin LoopStates)
             => (pc'[k] = "wait" /\ lastRet'[k] = "error" /\ timer'[k] = retryInterval)]_vars

\* C4: whenever control is in the supervisor (about to start a worker, or in
\* the retry wait) the relay holds no open connection and no open channel.
C4_ReleasedOnReturn ==
    \A k \in Relays :
        pc[k] \in {"dial", "wait"} => (~connOpen[k] /\ ~chOpen[k])

\* C4 witness: one worker has returned through the shutdown path and another
\* with an error, each after its session was open, and both are released.
C4_Witness ==
    \E k \in Relays, j \in Relays :
        /\ lastRet[k] = "nil" /\ pc[k] = "dial" /\ ~connOpen[k] /\ ~chOpen[k]
        /\ lastRet[j] = "error" /\ pc[j] = "wait" /\ ~connOpen[j] /\ ~chOpen[j]
        /\ deq[j] # <<>>

\* C5: within one relay the Forwarder is invoked in dequeue order, at most one
\* invocation is in flight, and every invocation but the latest has completed.
C5_ForwardInOrder ==
    \A k \in Relays :
        /\ Cardinality(inflight[k]) <= 1
        /\ Len(fwd[k]) <= Len(deq[k])
        /\ \A i \in 1..Len(fwd[k]) : fwd[k][i].msg = deq[k][i]
        /\ \A i \in 1..(Len(fwd[k]) - 1) : fwd[k][i].msg \in done[k]

\* C5 witness: a relay's second message is being forwarded after its first.
C5_Witness ==
    \E k \in Relays :
        /\ Len(deq[k]) = 2 /\ Len(fwd[k]) = 2
        /\ inflight[k] = {deq[k][2]}
        /\ deq[k][1] \in done[k]

\* C6: when the request cannot be constructed, the Forwarder returns to the
\* worker loop with nothing sent and the process running.
C6_BuildFailureReturns ==
    [][\A k \in Relays :
          (Len(fwd'[k]) > Len(fwd[k]) /\ ~urlParseOK(configs[k].TargetURL))
             => (pcMain' = "run" /\ pc'[k] = "select" /\ inflight'[k] = {})]_vars

C8_NoFailureEndsProcess ==
    [][pcMain = "run" => pcMain' = "run"]_vars

\* C9: a supervision task never ends: every retry wait is followed by the
\* supervisor being back at the start of a worker.
C9_AlwaysRestarts ==
    \A k \in Slots :
        (k \in Relays /\ pc[k] = "wait") ~> (k \in Relays /\ pc[k] = "dial")

\* the numbered entry i of the environment has a routing key and a target URL
Complete(i) ==
    /\ i \in DOMAIN env.numbered
    /\ env.numbered[i].key # ""
    /\ env.numbered[i].url # ""

\* C10: for RELAY_COUNT=N with at least one complete entry, the relays started
\* are exactly the complete entries of 1..N, in ascending order, each with its
\* own key and URL; every incomplete entry of 1..N is warned about once.
C10_NumberedRelays ==
    LET n == Atoi(env.RELAY_COUNT)
        good == {i \in 1..n.val : Complete(i)}
    IN  (pcMain # "load" /\ ~n.err /\ good # {})
           => /\ pcMain = "run"
              /\ DOMAIN pc = DOMAIN configs
              /\ Len(configs) = Cardinality(good)
              /\ \A j \in 1..Len(configs) :
                    /\ configs[j].Index \in good
                    /\ configs[j].RepoKey = env.numbered[configs[j].Index].key
                    /\ configs[j].TargetURL = env.numbered[configs[j].Index].url
              /\ \A j \in 1..(Len(configs) - 1) : configs[j].Index < configs[j + 1].Index
              /\ Len(warnings) = Cardinality((1..n.val) \ good)
              /\ Msgs(warnings) = (1..n.val) \ good

\* C10 witness: of three entries the second is incomplete; relays 1 and 3
\* start and index 2 is warned about.
C10_Witness ==
    /\ pcMain = "run"
    /\ env.RELAY_COUNT = <<"3">>
    /\ warnings = <<2>>
    /\ Len(configs) = 2
    /\ configs[1].Index = 1
    /\ configs[2].Index = 3

\* the environment e holds no usable numbered configuration: RELAY_COUNT
\* unset or empty, unparsable, non-positive, or every numbered entry incomplete
NoNumberedIn(e) ==
    LET n == Atoi(e.RELAY_COUNT)
    IN  \/ e.RELAY_COUNT = <<>>
        \/ n.err
        \/ \A i \in 1..n.val : GetenvKey(e, i) = "" \/ GetenvURL(e, i) = ""

\* the environment e holds a complete legacy unindexed pair
LegacyCompleteIn(e) == e.legacy.key # "" /\ e.legacy.url # ""

\* C11: when the numbered configuration yields no valid entry and a complete
\* legacy pair exists, exactly one relay starts, with the legacy routing key
\* and target URL.
C11_LegacyFallback ==
    (pcMain # "load" /\ NoNumberedIn(env) /\ LegacyCompleteIn(env))
       => /\ pcMain = "run"
          /\ Len(configs) = 1
          /\ DOMAIN pc = {1}
          /\ configs[1].RepoKey = env.legacy.key
          /\ configs[1].TargetURL = env.legacy.url

\* C11 witness: RELAY_COUNT=2 with both numbered entries incomplete (two
\* warnings) and the legacy relay started.
C11_Witness ==
    /\ pcMain = "run"
    /\ env.RELAY_COUNT = <<"2">>
    /\ warnings = <<1, 2>>
    /\ Len(configs) = 1
    /\ configs[1].RepoKey = env.legacy.key
    /\ DOMAIN pc = {1}

\* the environment e holds neither a usable numbered configuration nor a
\* complete legacy pair
NoConfigIn(e) == NoNumberedIn(e) /\ ~LegacyCompleteIn(e)

\* the relay engine, started under the engine's environments and under every
\* environment of Envs that holds no configuration
StartInit ==
    /\ env \in EngineEnvs \cup {e \in Envs : NoConfigIn(e)}
    /\ NotStarted

StartSpec == StartInit /\ [][Next]_vars

\* C12: with neither configuration complete the process ends in log.Fatal with
\* no supervision task, no worker and no broker connection ever started; a
\* running process always has a non-empty configuration set.
C12_FatalBeforeStart ==
    /\ (NoConfigIn(env) /\ pcMain # "load")
          => /\ pcMain = "fatal"
             /\ configs = <<>>
             /\ DOMAIN pc = {}
             /\ DOMAIN connOpen = {}
             /\ published = 0
    /\ pcMain \in {"run", "crashed"} => Len(configs) >= 1

\* C12 witness: RELAY_COUNT=2 with both entries incomplete and a legacy pair
\* that lacks its target URL: the process has ended in log.Fatal.
C12_Witness ==
    /\ pcMain = "fatal"
    /\ env.RELAY_COUNT = <<"2">>
    /\ warnings = <<1, 2>>
    /\ env.legacy.key # ""
    /\ env.legacy.url = ""
    /\ DOMAIN pc = {}

\* no two entries of the configuration set carry the same index
IndexUnique ==
    \A i \in DOMAIN configs, j \in DOMAIN configs :
        configs[i].Index = configs[j].Index => i = j

\* C13 (as claimed): every RelayConfig of the loaded set, numbered or legacy,
\* has a positive index that is unique within the set.
C13_IndexPositiveUnique ==
    /\ \A j \in DOMAIN configs : configs[j].Index >= 1
    /\ IndexUnique

\* C13 (amended): indices are unique within the set; on the numbered path each
\* is the positive number of its entry, on the legacy path the single
\* RelayConfig has index 0.
C13_IndexByPath ==
    pcMain = "run"
       => /\ IndexUnique
          /\ ~NoNumberedIn(env)
                => \A j \in DOMAIN configs :
                      /\ configs[j].Index \in 1..Atoi(env.RELAY_COUNT).val
                      /\ configs[j].RepoKey = GetenvKey(env, configs[j].Index)
          /\ NoNumberedIn(env)
                => (Len(configs) = 1 /\ configs[1].Index = 0)

\* C13 witness: the legacy relay is loaded and carries index 0.
C13_Witness ==
    /\ pcMain = "run"
    /\ NoNumberedIn(env)
    /\ Len(configs) = 1
    /\ configs[1].Index = 0
    /\ configs[1].RepoKey = env.legacy.key

\* no message occurs twice in the sequence s
NoDup(s) == \A i \in 1..Len(s), j \in 1..Len(s) : s[i] = s[j] => i = j

\* C14: per relay, a message is dequeued at most once (never redelivered, not
\* even to a replacement worker) and handed to the Forwarder at most once
\* (a failed forward is not retried).
C14_AtMostOnce ==
    \A k \in Relays :
        /\ NoDup(deq[k])
        /\ NoDup([i \in 1..Len(fwd[k]) |-> fwd[k][i].msg])
        /\ FwdMsgs(k) \subseteq Msgs(deq[k])
        /\ Msgs(deliveries[k]) \cap Msgs(deq[k]) = {}
        /\ failed[k] \cap inflight[k] = {}

\* C14 witness: a forward failed, the worker later exited with an error and a
\* replacement is consuming: the message was neither retried nor redelivered.
C14_Witness ==
    \E k \in Relays :
        /\ Len(deq[k]) = 1 /\ Len(fwd[k]) = 1
        /\ deq[k][1] \in failed[k]
        /\ lastRet[k] = "error"
        /\ pc[k] = "select"
        /\ lastLog[k] = "listening"
        /\ deliveries[k] = <<>>

\* C15: every Forwarder invocation with a usable URL makes its own POST, and
\* any two invocations with the same payload and target URL, in the same relay
\* or in different ones, carry the same body and headers.
C15_StatelessForwarder ==
    \A k \in Relays :
        \A i \in 1..Len(fwd[k]) :
            /\ urlParseOK(fwd[k][i].url)
                  => /\ fwd[k][i].req # NoRequest
                     /\ fwd[k][i].req.ContentLength = Len(fwd[k][i].req.body)
                     /\ fwd[k][i].msg \in inflight[k] \cup done[k]
            /\ \A j \in Relays :
                  \A h \in 1..Len(fwd[j]) :
                      (/\ BodyOf(fwd[k][i].msg) = BodyOf(fwd[j][h].msg)
                       /\ fwd[k][i].url = fwd[j][h].url)
                         => fwd[k][i].req = fwd[j][h].req

\* C15 witness: one relay has forwarded the same payload twice, as two
\* messages; both POSTs were made and carry the same request.
C15_Witness ==
    \E k \in Relays :
        /\ Len(fwd[k]) = 2
        /\ BodyOf(fwd[k][1].msg) = BodyOf(fwd[k][2].msg)
        /\ fwd[k][1].msg # fwd[k][2].msg
        /\ fwd[k][1].req = fwd[k][2].req
        /\ fwd[k][1].req.body = formEncode(Payloads[1])
        /\ fwd[k][1].msg \in done[k]
        /\ fwd[k][2].msg \in inflight[k]

\* C16: a worker run returns nil only from its select, in the step in which
\* another worker's send on shutdownCh completes; every return with an error
\* puts the supervisor in the retry wait; with shutdown-on-push disabled no
\* worker ever sends on the conduit and no run ever returns nil.
C16_NilOnlyByShutdown ==
    [][\A k \in Relays :
          LET errRet == pc[k] # "wait" /\ pc'[k] = "wait"
              nilRet == pc[k] \notin {"dial", "wait"} /\ pc'[k] = "dial"
          IN  /\ nilRet => /\ shutdownOnPush
                           /\ pc[k] = "select"
                           /\ lastRet'[k] = "nil"
                           /\ \E s \in Relays \ {k} : pc[s] = "emit" /\ pc'[s] = "call"
              /\ errRet => (lastRet'[k] = "error" /\ timer'[k] = retryInterval)
              /\ ~shutdownOnPush => /\ ~nilRet
                                    /\ pc'[k] # "emit"
                                    /\ lastRet'[k] # "nil"]_vars

\* C16 witness: a worker has returned nil and its supervisor is restarting it
\* while the worker whose send it received is about to forward.
C16_Witness ==
    \E k \in Relays, s \in Relays :
        /\ shutdownOnPush
        /\ lastRet[k] = "nil" /\ pc[k] = "dial" /\ timer[k] = 0
        /\ pc[s] = "call"

C18_OneSessionPerEntry ==
    [][/\ pcMain # "load" => (configs' = configs /\ DOMAIN pc' = DOMAIN configs)
       /\ \A k \in Relays :
             /\ (pc[k] = "dial" /\ pc'[k] = "channel")
                   => (~connOpen[k] /\ ~chOpen[k] /\ connOpen'[k])
             /\ (connOpen'[k] /\ ~connOpen[k]) => pc[k] = "dial"
             /\ (chOpen'[k] /\ ~chOpen[k]) => (pc[k] = "channel" /\ connOpen[k])]_vars

\* C18 witness: a replacement worker holds the relay's session after an
\* earlier run, which had consumed a message, returned.
C18_Witness ==
    \E k \in Relays :
        /\ lastRet[k] # "none"
        /\ deq[k] # <<>>
        /\ lastLog[k] = "listening"
        /\ connOpen[k] /\ chOpen[k]
        /\ pc[k] = "select"

\* C19: every Forwarder invocation of relay k is for a message relay k's
\* worker dequeued, goes to relay k's target URL and is labelled with relay
\* k's index and routing key; no other relay forwards that message.
C19_RoutingIsolation ==
    \A k \in Relays :
        \A i \in 1..Len(fwd[k]) :
            /\ fwd[k][i].msg \in Msgs(deq[k])
            /\ fwd[k][i].url = configs[k].TargetURL
            /\ fwd[k][i].index = configs[k].Index
            /\ fwd[k][i].key = configs[k].RepoKey
            /\ \A j \in Relays \ {k} : fwd[k][i].msg \notin FwdMsgs(j) \cup Msgs(deq[j])

\* C19 witness: two relays with different keys have each forwarded a message
\* of their own, one of them in a replacement worker after a restart.
C19_Witness ==
    \E k \in Relays, j \in Relays :
        /\ configs[k].RepoKey # configs[j].RepoKey
        /\ Len(fwd[k]) = 1 /\ Len(fwd[j]) = 1
        /\ fwd[k][1].key = configs[k].RepoKey
        /\ fwd[j][1].key = configs[j].RepoKey
        /\ lastRet[k] = "error"
        /\ lastLog[k] = "payload"
        /\ fwd[k][1].msg > fwd[j][1].msg

====
